---- MODULE Spec2Model ----
(***************************************************************************)
(* Model of deuceclient/auth/auth.py: the Authentication session.          *)
(*                                                                         *)
(* State: the cached identity response (auth_data), the UTC clock read by  *)
(* IsExpired, and the position of a GetToken call that is waiting for the  *)
(* identity service (GetToken recurses once per HTTP 404, one POST per     *)
(* frame).  Python dicts are functions from keys to values; a missing key  *)
(* is a key outside DOMAIN and raises KeyError (a LookupError).            *)
(***************************************************************************)
EXTENDS Integers, Sequences, FiniteSets, TLC

VARIABLES
    auth_data,    \* self.auth_data: the last stored identity response, or {}
    now,          \* datetime.datetime.utcnow(), <<Y, M, D, h, m, s>>
    intIdentity,  \* does `is` hold between equal ints outside the small-int cache
    pc,           \* "idle", or "GetToken" while a GetToken frame awaits its POST
    retry,        \* the retry argument of the active GetToken frame
    retry0,       \* the retry argument of the outermost GetToken frame
    caller,       \* who called GetToken: "GetToken" (the user) or "AuthToken"
    statuses,     \* status codes received by the current / last GetToken call
    uri,          \* self.uri: the path the next request goes to
    Body,         \* self.body: the serialised authentication request
    last          \* the last completed step and what it gave back

vars == <<auth_data, now, intIdentity, pc, retry, retry0, caller, statuses,
          uri, Body, last>>

-----------------------------------------------------------------------------
(* Bounds *)

MaxRetry == 2      \* largest retry argument a user passes to GetToken
MaxElapsed == 3    \* seconds the clock may run past a start instant
MaxDrift == 1      \* seconds that may pass between the two clock reads of AuthToken
MaxFuzz == 2       \* largest fuzz a user passes to IsExpired
MaxFrames == 8     \* GetToken frames followed before the recursion is cut off

(* Program constants *)

DefaultRetry == 5      \* def GetToken(self, retry=5)
NearExpiryFuzz == 2    \* self.IsExpired(fuzz=2)
SleepSeconds == 3      \* time.sleep(3)
HttpOk == 200
HttpNotFound == 404
HttpErrorFloor == 400

-----------------------------------------------------------------------------
(* Python dicts *)

EmptyDict == [k \in {} |-> 0]

RECURSIVE HasPath(_, _)
HasPath(d, path) ==
    IF path = <<>> THEN TRUE
    ELSE Head(path) \in DOMAIN d /\ HasPath(d[Head(path)], Tail(path))

RECURSIVE GetPath(_, _)
GetPath(d, path) ==
    IF path = <<>> THEN d ELSE GetPath(d[Head(path)], Tail(path))

LookupErrors == {"KeyError", "IndexError"}

Return(v) == [result |-> "return", value |-> v, exc |-> "-"]
Raise(e) == [result |-> "raise", value |-> "-", exc |-> e]

-----------------------------------------------------------------------------
(* Calendar: datetime values are <<year, month, day, hour, minute, second>> *)

IsLeap(y) == (y % 4 = 0 /\ y % 100 # 0) \/ y % 400 = 0

DaysInMonth(y, m) ==
    IF m = 2 THEN (IF IsLeap(y) THEN 29 ELSE 28)
    ELSE IF m \in {4, 6, 9, 11} THEN 30 ELSE 31

ValidStamp(t) ==
    /\ Len(t) = 6
    /\ t[1] \in 1..9999
    /\ t[2] \in 1..12
    /\ t[3] \in 1..DaysInMonth(t[1], t[2])
    /\ t[4] \in 0..23
    /\ t[5] \in 0..59
    /\ t[6] \in 0..59

AddSecond(t) ==
    IF t[6] < 59 THEN <<t[1], t[2], t[3], t[4], t[5], t[6] + 1>>
    ELSE IF t[5] < 59 THEN <<t[1], t[2], t[3], t[4], t[5] + 1, 0>>
    ELSE IF t[4] < 23 THEN <<t[1], t[2], t[3], t[4] + 1, 0, 0>>
    ELSE IF t[3] < DaysInMonth(t[1], t[2]) THEN <<t[1], t[2], t[3] + 1, 0, 0, 0>>
    ELSE IF t[2] < 12 THEN <<t[1], t[2] + 1, 1, 0, 0, 0>>
    ELSE <<t[1] + 1, 1, 1, 0, 0, 0>>

RECURSIVE AddSeconds(_, _)
AddSeconds(t, n) == IF n = 0 THEN t ELSE AddSeconds(AddSecond(t), n - 1)

RECURSIVE DaysBeforeMonth(_, _)
DaysBeforeMonth(y, m) ==
    IF m = 1 THEN 0 ELSE DaysBeforeMonth(y, m - 1) + DaysInMonth(y, m - 1)

DayNumber(y, m, d) ==
    365 * (y - 1) + ((y - 1) \div 4) - ((y - 1) \div 100) + ((y - 1) \div 400)
        + DaysBeforeMonth(y, m) + d

\* seconds since 2000-01-01T00:00:00 on the proleptic Gregorian time line
Seconds(t) ==
    (((DayNumber(t[1], t[2], t[3]) - DayNumber(2000, 1, 1)) * 24 + t[4]) * 60
        + t[5]) * 60 + t[6]

-----------------------------------------------------------------------------
(* `x is <literal>` on ints.  Two equal ints are always the same object   *)
(* when the value lies in the interpreter's shared small-int range; for   *)
(* any other value the runtime decides (intIdentity).                     *)

SmallInts == (0 - 5)..256

Is(x, literal) == x = literal /\ (literal \in SmallInts \/ intIdentity)

-----------------------------------------------------------------------------
(* Timestamp strings.  A string is its date-time prefix (the six fields   *)
(* as written) and the tokens that follow the seconds.                    *)

Fractions == {".550"}
FracZ == <<".550", "Z">>     \* 2013-12-24T14:02:26.550Z
NoTail == <<>>               \* 2013-12-24T14:02:26
ZTail == <<"Z">>             \* 2013-12-24T14:02:26Z
Tails == {FracZ, NoTail, ZTail}

TimeString(stamp, tail) == [stamp |-> stamp, tail |-> tail]

FmtFraction == "%Y-%m-%dT%H:%M:%S.%fZ"
FmtPlain == "%Y-%m-%dT%H:%M:%S"

\* what must follow %S for the format to consume the whole string
TailMatches(tail, fmt) ==
    IF fmt = FmtFraction
    THEN Len(tail) = 2 /\ tail[1] \in Fractions /\ tail[2] = "Z"
    ELSE tail = <<>>

\* datetime.datetime.strptime: a datetime, or ValueError
strptime(str, fmt) ==
    IF ValidStamp(str.stamp) /\ TailMatches(str.tail, fmt)
    THEN Return(str.stamp)
    ELSE Raise("ValueError")

\* '...{i:}'.format(*args): IndexError when the tuple has no position i
FormatIndex(i, args) ==
    IF i < Len(args) THEN Return("msg") ELSE Raise("IndexError")

-----------------------------------------------------------------------------
(* IsExpired and its comparator *)

RECURSIVE time_layer_compare(_, _, _)
time_layer_compare(val_older, val_newer, next_layer) ==
    IF val_older = val_newer
    THEN IF next_layer # <<>>
         THEN time_layer_compare(Head(next_layer).older,
                                 Head(next_layer).newer,
                                 Tail(next_layer))
         ELSE TRUE
    ELSE val_older > val_newer

\* time_layers, but the fuzz is left out of the seconds layer
time_layers_NoFuzz(timeval_older, timeval_newer, new_fuzz) ==
    << [older |-> timeval_older[2], newer |-> timeval_newer[2]],
       [older |-> timeval_older[3], newer |-> timeval_newer[3]],
       [older |-> timeval_older[4], newer |-> timeval_newer[4]],
       [older |-> timeval_older[5], newer |-> timeval_newer[5]],
       [older |-> timeval_older[6], newer |-> timeval_newer[6]] >>

\* time_layers, but the fuzz is taken off the seconds of now
time_layers_MinusFuzz(timeval_older, timeval_newer, new_fuzz) ==
    << [older |-> timeval_older[2], newer |-> timeval_newer[2]],
       [older |-> timeval_older[3], newer |-> timeval_newer[3]],
       [older |-> timeval_older[4], newer |-> timeval_newer[4]],
       [older |-> timeval_older[5], newer |-> timeval_newer[5]],
       [older |-> timeval_older[6], newer |-> timeval_newer[6] - new_fuzz] >>

\* time_layers, but the day layer comes before the month layer
time_layers_DayFirst(timeval_older, timeval_newer, new_fuzz) ==
    << [older |-> timeval_older[3], newer |-> timeval_newer[3]],
       [older |-> timeval_older[2], newer |-> timeval_newer[2]],
       [older |-> timeval_older[4], newer |-> timeval_newer[4]],
       [older |-> timeval_older[5], newer |-> timeval_newer[5]],
       [older |-> timeval_older[6], newer |-> timeval_newer[6] + new_fuzz] >>

\* the nested 'next' dicts, outermost first; the innermost 'next' is None
time_layers(timeval_older, timeval_newer, new_fuzz) ==
    << [older |-> timeval_older[2], newer |-> timeval_newer[2]],
       [older |-> timeval_older[3], newer |-> timeval_newer[3]],
       [older |-> timeval_older[4], newer |-> timeval_newer[4]],
       [older |-> timeval_older[5], newer |-> timeval_newer[5]],
       [older |-> timeval_older[6], newer |-> timeval_newer[6] + new_fuzz] >>

\* time_fuzzy_compare, but equal in every layer counts as older
time_fuzzy_compare_Strict(timeval_older, timeval_newer, new_fuzz) ==
    /\ time_layer_compare(timeval_older[1], timeval_newer[1],
                          time_layers(timeval_older, timeval_newer, new_fuzz))
    /\ timeval_older #
           [timeval_newer EXCEPT ![6] = timeval_newer[6] + new_fuzz]

time_fuzzy_compare(timeval_older, timeval_newer, new_fuzz) ==
    time_layer_compare(timeval_older[1], timeval_newer[1],
                       time_layers(timeval_older, timeval_newer, new_fuzz))

ExpiresPath == <<"access", "token", "expires">>
TokenIdPath == <<"access", "token", "id">>

\* AuthExpirationTime, but a missing key raises what the other accessors raise
AuthExpirationTime_PlainError(data) ==
    IF HasPath(data, ExpiresPath)
    THEN Return(GetPath(data, ExpiresPath))
    ELSE Raise("AuthenticationError")

AuthExpirationTime(data) ==
    IF HasPath(data, ExpiresPath)
    THEN Return(GetPath(data, ExpiresPath))
    ELSE Raise("AuthExpirationError")

\* the two nested try blocks: the parsed expiration time, or what is raised
ParseExpiration(data) ==
    LET aet == AuthExpirationTime(data) IN
    IF aet.result = "raise" THEN aet
    ELSE LET first == strptime(aet.value, FmtFraction) IN
         IF first.result = "return" THEN first
         ELSE LET second == strptime(aet.value, FmtPlain) IN
              IF second.result = "return" THEN second
              ELSE LET msg == FormatIndex(1, <<aet.value>>) IN
                   IF msg.result = "raise" THEN msg
                   ELSE Raise("AuthenticationError")

IsExpired(data, clock, fuzz) ==
    LET expirationtime == ParseExpiration(data) IN
    IF expirationtime.result = "raise"
    THEN IF expirationtime.exc = "AuthExpirationError"
         THEN Return("True")
         ELSE expirationtime
    ELSE IF time_fuzzy_compare(expirationtime.value, clock, fuzz)
         THEN Return("False")
         ELSE Return("True")

-----------------------------------------------------------------------------
(* __init__: the authentication request built from the credentials *)

TokensPath == "/v2.0/tokens"

rax_api_keyspace == "RAX-KSKEY:apiKeyCredentials"

\* Encode, but token + tenantname files the name under tenantId
Encode_TenantNameAsId(userid, credentials, usertype, method) ==
    LET token == [id |-> credentials]
        unknown == Raise("AuthCredentialsErrors")
    IN IF method = "apikey"
       THEN IF usertype = "user"
            THEN Return([auth |-> (rax_api_keyspace :>
                            [username |-> userid, apiKey |-> credentials])])
            ELSE IF usertype = "tenantid"
            THEN Return([auth |-> [tenantId |-> userid, token |-> token]])
            ELSE unknown
       ELSE IF method = "password"
       THEN IF usertype = "user"
            THEN Return([auth |-> [passwordCredentials |->
                            [username |-> userid, password |-> credentials]]])
            ELSE IF usertype = "tenantid"
            THEN Return([auth |-> [tenantId |-> userid, token |-> token]])
            ELSE unknown
       ELSE IF method = "token"
       THEN IF usertype = "tenantid"
            THEN Return([auth |-> [tenantId |-> userid, token |-> token]])
            ELSE IF usertype = "tenantname"
            THEN Return([auth |-> [tenantId |-> userid, token |-> token]])
            ELSE unknown
       ELSE IF method = "validate"
       THEN Return([auth |-> [token |-> token]])
       ELSE Return([auth |-> EmptyDict])

\* Encode, but password + user is filed in the api-key block
Encode_PasswordAsApiKey(userid, credentials, usertype, method) ==
    LET token == [id |-> credentials]
        unknown == Raise("AuthCredentialsErrors")
    IN IF method = "apikey"
       THEN IF usertype = "user"
            THEN Return([auth |-> (rax_api_keyspace :>
                            [username |-> userid, apiKey |-> credentials])])
            ELSE IF usertype = "tenantid"
            THEN Return([auth |-> [tenantId |-> userid, token |-> token]])
            ELSE unknown
       ELSE IF method = "password"
       THEN IF usertype = "user"
            THEN Return([auth |-> (rax_api_keyspace :>
                            [username |-> userid, apiKey |-> credentials])])
            ELSE IF usertype = "tenantid"
            THEN Return([auth |-> [tenantId |-> userid, token |-> token]])
            ELSE unknown
       ELSE IF method = "token"
       THEN IF usertype = "tenantid"
            THEN Return([auth |-> [tenantId |-> userid, token |-> token]])
            ELSE IF usertype = "tenantname"
            THEN Return([auth |-> [tenantName |-> userid, token |-> token]])
            ELSE unknown
       ELSE IF method = "validate"
       THEN Return([auth |-> [token |-> token]])
       ELSE Return([auth |-> EmptyDict])

\* self.o as __init__ leaves it, or the error it raises
Encode(userid, credentials, usertype, method) ==
    LET token == [id |-> credentials]
        unknown == Raise("AuthCredentialsErrors")
    IN IF method = "apikey"
       THEN IF usertype = "user"
            THEN Return([auth |-> (rax_api_keyspace :>
                            [username |-> userid, apiKey |-> credentials])])
            ELSE IF usertype = "tenantid"
            THEN Return([auth |-> [tenantId |-> userid, token |-> token]])
            ELSE unknown
       ELSE IF method = "password"
       THEN IF usertype = "user"
            THEN Return([auth |-> [passwordCredentials |->
                            [username |-> userid, password |-> credentials]]])
            ELSE IF usertype = "tenantid"
            THEN Return([auth |-> [tenantId |-> userid, token |-> token]])
            ELSE unknown
       ELSE IF method = "token"
       THEN IF usertype = "tenantid"
            THEN Return([auth |-> [tenantId |-> userid, token |-> token]])
            ELSE IF usertype = "tenantname"
            THEN Return([auth |-> [tenantName |-> userid, token |-> token]])
            ELSE unknown
       ELSE IF method = "validate"
       THEN Return([auth |-> [token |-> token]])
       ELSE Return([auth |-> EmptyDict])

\* the keys of the request in the order __init__ inserts them, and the
\* ones whose value is itself an object
KeyOrder == <<"auth", rax_api_keyspace, "passwordCredentials", "tenantId",
              "tenantName", "token", "username", "apiKey", "password", "id">>
ObjectKeys == {"auth", rax_api_keyspace, "passwordCredentials", "token"}

\* json.dumps: the document as text, one token per brace, key and string
RECURSIVE JsonMembers(_, _)
JsonMembers(d, keys) ==
    IF keys = <<>> THEN <<>>
    ELSE LET k == Head(keys) IN
         (IF k \in DOMAIN d
          THEN <<k, ":">> \o (IF k \in ObjectKeys
                              THEN <<"{">> \o JsonMembers(d[k], KeyOrder) \o <<"}">>
                              ELSE <<d[k]>>)
          ELSE <<>>) \o JsonMembers(d, Tail(keys))

JsonDumps(d) == <<"{">> \o JsonMembers(d, KeyOrder) \o <<"}">>

-----------------------------------------------------------------------------
(* The environment: the clock, and what the identity service answers *)

ClockStarts == { <<2024, 1, 1, 0, 0, 3>>, <<2024, 2, 29, 23, 59, 58>> }

Elapsed(t) ==
    LET s == CHOOSE c \in ClockStarts :
                 /\ Seconds(c) <= Seconds(t)
                 /\ \A d \in ClockStarts :
                        Seconds(d) <= Seconds(t) => Seconds(d) <= Seconds(c)
    IN Seconds(t) - Seconds(s)

\* expiry instants the service hands out
ExpiryStamps == { <<2023, 12, 31, 23, 59, 59>>,
                  <<2024, 1, 1, 0, 0, 5>>,
                  <<2024, 3, 1, 0, 0, 0>> }

ExpiresStrings ==
    { TimeString(st, tl) : st \in ExpiryStamps, tl \in {FracZ, NoTail} }
        \cup { TimeString(<<2024, 1, 1, 0, 0, 5>>, ZTail),
               TimeString(<<2024, 13, 1, 0, 0, 5>>, FracZ) }

TokenIds == {"tokA", "tokB"}

TokenBody(id, expires) ==
    [access |-> [token |-> [id |-> id,
                            expires |-> expires,
                            tenant |-> [id |-> "T1", name |-> "acme"]],
                 user |-> [id |-> "U1"]]]

\* JSON bodies of a 200 answer: complete ones, and ones with keys missing
Bodies ==
    { TokenBody("tokA", e) : e \in ExpiresStrings }
        \cup { TokenBody(id, TimeString(<<2024, 3, 1, 0, 0, 0>>, FracZ)) :
                   id \in TokenIds }
        \cup { EmptyDict,
               [access |-> [token |-> [id |-> "tokA"]]],
               [access |-> [token |-> [expires |->
                    TimeString(<<2024, 3, 1, 0, 0, 0>>, FracZ)]]] }

Statuses == {200, 204, 302, 401, 404, 500}

NoCall == [op |-> "none", result |-> "-", value |-> "-", exc |-> "-",
           status |-> 0, body |-> EmptyDict, changed |-> FALSE,
           fuzz |-> 0, calls |-> 0, t1 |-> <<>>, t2 |-> <<>>,
           args |-> <<>>, path |-> "-"]

Init ==
    /\ auth_data = EmptyDict
    /\ now \in ClockStarts
    /\ intIdentity \in BOOLEAN
    /\ pc = "idle"
    /\ retry = 0
    /\ retry0 = 0
    /\ caller = "GetToken"
    /\ statuses = <<>>
    /\ uri = TokensPath
    /\ Body = JsonDumps(Encode("alice", "s3cret", "user", "apikey").value)
    /\ last = NoCall

-----------------------------------------------------------------------------
(* The service catalog accessors *)

CatalogPath == <<"access", "serviceCatalog">>
UserIdPath == <<"access", "user", "id">>

\* the inner loop of MossoId: the first non-empty tenantId, else None
RECURSIVE FirstTenantId(_)
FirstTenantId(endpoints) ==
    IF endpoints = <<>> THEN Return("None")
    ELSE IF "tenantId" \notin DOMAIN Head(endpoints) THEN Raise("KeyError")
    ELSE IF Head(endpoints).tenantId # ""
    THEN Return(Head(endpoints).tenantId)
    ELSE FirstTenantId(Tail(endpoints))

\* the outer loop of MossoId; `break` leaves the inner loop only
RECURSIVE MossoIdScan(_, _)
MossoIdScan(services, mossoid) ==
    IF services = <<>> THEN Return(mossoid)
    ELSE LET service == Head(services) IN
         IF "name" \notin DOMAIN service THEN Raise("KeyError")
         ELSE IF service.name # "cloudFiles"
         THEN MossoIdScan(Tail(services), mossoid)
         ELSE IF "endpoints" \notin DOMAIN service THEN Raise("KeyError")
         ELSE LET found == FirstTenantId(service.endpoints) IN
              IF found.result = "raise" THEN found
              ELSE MossoIdScan(Tail(services),
                               IF found.value # "None" THEN found.value
                               ELSE mossoid)

\* `except LookupError: raise AuthenticationError(msg)`
LookupGuard(out) ==
    IF out.result = "raise" /\ out.exc \in LookupErrors
    THEN Raise("AuthenticationError")
    ELSE out

MossoId(data) ==
    LookupGuard(IF HasPath(data, CatalogPath)
                THEN MossoIdScan(GetPath(data, CatalogPath), "None")
                ELSE Raise("KeyError"))

RECURSIVE EndpointRegions(_)
EndpointRegions(endpoints) ==
    IF endpoints = <<>> THEN Return(<<>>)
    ELSE IF "region" \notin DOMAIN Head(endpoints) THEN Raise("KeyError")
    ELSE LET rest == EndpointRegions(Tail(endpoints)) IN
         IF rest.result = "raise" THEN rest
         ELSE Return(<<Head(endpoints).region>> \o rest.value)

\* DataCenterScan, but the service name is not looked at
RECURSIVE DataCenterScan_AnyService(_)
DataCenterScan_AnyService(services) ==
    IF services = <<>> THEN Return(<<>>)
    ELSE LET service == Head(services) IN
         IF "name" \notin DOMAIN service THEN Raise("KeyError")
         ELSE IF "endpoints" \notin DOMAIN service THEN Raise("KeyError")
         ELSE LET here == EndpointRegions(service.endpoints)
                  rest == DataCenterScan_AnyService(Tail(services))
              IN IF here.result = "raise" THEN here
                 ELSE IF rest.result = "raise" THEN rest
                 ELSE Return(here.value \o rest.value)

\* the loops of GetCloudFilesDataCenters: dclist, or the first KeyError
RECURSIVE DataCenterScan(_)
DataCenterScan(services) ==
    IF services = <<>> THEN Return(<<>>)
    ELSE LET service == Head(services) IN
         IF "name" \notin DOMAIN service THEN Raise("KeyError")
         ELSE IF service.name # "cloudFiles"
         THEN DataCenterScan(Tail(services))
         ELSE IF "endpoints" \notin DOMAIN service THEN Raise("KeyError")
         ELSE LET here == EndpointRegions(service.endpoints)
                  rest == DataCenterScan(Tail(services))
              IN IF here.result = "raise" THEN here
                 ELSE IF rest.result = "raise" THEN rest
                 ELSE Return(here.value \o rest.value)

\* GetCloudFilesDataCenters once AuthToken has given back a token
GetCloudFilesDataCenters(data) ==
    LookupGuard(IF HasPath(data, CatalogPath)
                THEN DataCenterScan(GetPath(data, CatalogPath))
                ELSE Raise("KeyError"))

\* the credential-listing path of AllCredentials (get_credentials = False)
CredentialsPath == "/v2.0/users/{AuthUserId}/OS-KSADM/credentials"

\* ReInit(True, path): the request path after it
ReInit(path) == path

\* what the caller of AuthToken does with what AuthToken gave back
AfterAuthToken(op, tokenOut, data) ==
    IF tokenOut.result # "return" \/ op = "AuthToken" THEN tokenOut
    ELSE IF op = "GetCloudFilesDataCenters" THEN GetCloudFilesDataCenters(data)
    ELSE IF HasPath(data, UserIdPath)
    THEN [result |-> "request", value |-> "-", exc |-> "-"]
    ELSE Raise("AuthenticationError")

-----------------------------------------------------------------------------
(* GetToken *)

\* GetTokenFrame, but an error status also drops the stored response
GetTokenFrame_ClearOnError(data, status_code, body, retryArg) ==
    IF Is(status_code, HttpOk)
    THEN [auth_data |-> body,
          out |-> IF HasPath(body, TokenIdPath)
                  THEN Return(GetPath(body, TokenIdPath))
                  ELSE Raise("KeyError")]
    ELSE IF Is(status_code, HttpNotFound)
    THEN [auth_data |-> data,
          out |-> IF Is(retryArg, 0)
                  THEN Raise("AuthenticationError")
                  ELSE [result |-> "recurse", value |-> "-", exc |-> "-"]]
    ELSE IF status_code >= HttpErrorFloor
    THEN [auth_data |-> EmptyDict, out |-> Return("None")]
    ELSE [auth_data |-> EmptyDict, out |-> Return("")]

\* GetTokenFrame, but on 200 the token id is read before the response is stored
GetTokenFrame_StaleToken(data, status_code, body, retryArg) ==
    IF Is(status_code, HttpOk)
    THEN [auth_data |-> body,
          out |-> IF HasPath(data, TokenIdPath)
                  THEN Return(GetPath(data, TokenIdPath))
                  ELSE Raise("KeyError")]
    ELSE IF Is(status_code, HttpNotFound)
    THEN [auth_data |-> data,
          out |-> IF Is(retryArg, 0)
                  THEN Raise("AuthenticationError")
                  ELSE [result |-> "recurse", value |-> "-", exc |-> "-"]]
    ELSE IF status_code >= HttpErrorFloor
    THEN [auth_data |-> data, out |-> Return("None")]
    ELSE [auth_data |-> EmptyDict, out |-> Return("")]

\* GetTokenFrame, but an unrecognised status leaves the stored response alone
GetTokenFrame_KeepOnOther(data, status_code, body, retryArg) ==
    IF Is(status_code, HttpOk)
    THEN [auth_data |-> body,
          out |-> IF HasPath(body, TokenIdPath)
                  THEN Return(GetPath(body, TokenIdPath))
                  ELSE Raise("KeyError")]
    ELSE IF Is(status_code, HttpNotFound)
    THEN [auth_data |-> data,
          out |-> IF Is(retryArg, 0)
                  THEN Raise("AuthenticationError")
                  ELSE [result |-> "recurse", value |-> "-", exc |-> "-"]]
    ELSE IF status_code >= HttpErrorFloor
    THEN [auth_data |-> data, out |-> Return("None")]
    ELSE [auth_data |-> data, out |-> Return("")]

\* one frame of GetToken on the answer (status_code, json body):
\* what it stores, and whether it returns, raises or recurses
GetTokenFrame(data, status_code, body, retryArg) ==
    IF Is(status_code, HttpOk)
    THEN [auth_data |-> body,
          out |-> IF HasPath(body, TokenIdPath)
                  THEN Return(GetPath(body, TokenIdPath))
                  ELSE Raise("KeyError")]
    ELSE IF Is(status_code, HttpNotFound)
    THEN [auth_data |-> data,
          out |-> IF Is(retryArg, 0)
                  THEN Raise("AuthenticationError")
                  ELSE [result |-> "recurse", value |-> "-", exc |-> "-"]]
    ELSE IF status_code >= HttpErrorFloor
    THEN [auth_data |-> data, out |-> Return("None")]
    ELSE [auth_data |-> EmptyDict, out |-> Return("")]

\* AuthToken's `except LookupError` around everything it calls
AuthTokenGuard(out) ==
    IF out.result = "raise" /\ out.exc \in LookupErrors
    THEN Raise("AuthCredentialsErrors")
    ELSE out

Completed(op, out) ==
    [NoCall EXCEPT !.op = op, !.result = out.result,
                   !.value = out.value, !.exc = out.exc]

\* the user calls GetToken(retry=r)
CallGetToken(r) ==
    /\ pc = "idle"
    /\ pc' = "GetToken"
    /\ retry' = r
    /\ retry0' = r
    /\ caller' = "GetToken"
    /\ statuses' = <<>>
    /\ last' = [NoCall EXCEPT !.op = "call"]
    /\ UNCHANGED <<auth_data, now, intIdentity, uri, Body>>

\* requests.post answers the active frame with (status, body)
Post(status, body) ==
    /\ pc = "GetToken"
    /\ LET frame == GetTokenFrame(auth_data, status, body, retry)
           out == IF caller = "GetToken" THEN frame.out
                  ELSE AfterAuthToken(caller, AuthTokenGuard(frame.out),
                                      frame.auth_data)
       IN /\ auth_data' = frame.auth_data
          /\ statuses' = Append(statuses, status)
          /\ out.result = "recurse" => Len(statuses) + 1 < MaxFrames
          /\ IF out.result = "recurse"
             THEN /\ pc' = "GetToken"
                  /\ retry' = retry - 1
             ELSE /\ pc' = IF out.result = "request" THEN "AllCredentials"
                           ELSE "idle"
                  /\ retry' = retry
          /\ uri' = IF out.result = "request" THEN ReInit(CredentialsPath)
                    ELSE uri
          /\ last' = [(IF caller = "GetToken" THEN NoCall ELSE last) EXCEPT
                          !.op = caller, !.result = out.result,
                          !.value = out.value, !.exc = out.exc,
                          !.status = status, !.body = body,
                          !.changed = (frame.auth_data # auth_data),
                          !.path = uri]
    /\ UNCHANGED <<now, intIdentity, retry0, caller, Body>>

-----------------------------------------------------------------------------
(* IsExpired, AuthToken and the plain accessors *)

\* the user calls IsExpired(fuzz)
CallIsExpired(fuzz) ==
    /\ pc = "idle"
    /\ last' = [Completed("IsExpired", IsExpired(auth_data, now, fuzz)) EXCEPT
                    !.fuzz = fuzz, !.t1 = now]
    /\ UNCHANGED <<auth_data, now, intIdentity, pc, retry, retry0, caller,
                   statuses, uri, Body>>

\* AuthTokenDecision, but without the near-expiry check
AuthTokenDecision_NoNearCheck(data, t1, t2) ==
    LET obviously == IsExpired(data, t1, 0)
    IN IF obviously.result = "raise"
       THEN [branch |-> "raise", out |-> AuthTokenGuard(obviously)]
       ELSE IF obviously.value = "True"
       THEN [branch |-> "expired", out |-> obviously]
       ELSE [branch |-> "cached",
             out |-> AuthTokenGuard(IF HasPath(data, TokenIdPath)
                                    THEN Return(GetPath(data, TokenIdPath))
                                    ELSE Raise("KeyError"))]

\* what AuthToken does before any GetToken it makes: the clock is read at
\* t1 by IsExpired() and, if that says False, at t2 by IsExpired(fuzz=2)
AuthTokenDecision(data, t1, t2) ==
    LET obviously == IsExpired(data, t1, 0)
        near == IsExpired(data, t2, NearExpiryFuzz)
    IN IF obviously.result = "raise"
       THEN [branch |-> "raise", out |-> AuthTokenGuard(obviously)]
       ELSE IF obviously.value = "True"
       THEN [branch |-> "expired", out |-> obviously]
       ELSE IF near.result = "raise"
       THEN [branch |-> "raise", out |-> AuthTokenGuard(near)]
       ELSE IF near.value = "True"
       THEN [branch |-> "near", out |-> near]
       ELSE [branch |-> "cached",
             out |-> AuthTokenGuard(IF HasPath(data, TokenIdPath)
                                    THEN Return(GetPath(data, TokenIdPath))
                                    ELSE Raise("KeyError"))]

\* the user reads the AuthToken property; drift seconds pass between the
\* two clock reads
CallAuthToken(drift) ==
    /\ pc = "idle"
    /\ Elapsed(now) <= MaxElapsed
    /\ LET t1 == now
           t2 == AddSeconds(now, drift)
           d == AuthTokenDecision(auth_data, t1, t2)
           calls == IF d.branch \in {"expired", "near"} THEN 1 ELSE 0
       IN /\ d.branch \in {"raise", "expired"} => drift = 0
          /\ now' = IF d.branch = "near" THEN AddSeconds(t2, SleepSeconds)
                    ELSE IF d.branch = "cached" THEN t2
                    ELSE t1
          /\ IF calls = 1
             THEN /\ pc' = "GetToken"
                  /\ retry' = DefaultRetry
                  /\ retry0' = DefaultRetry
                  /\ caller' = "AuthToken"
                  /\ statuses' = <<>>
                  /\ last' = [NoCall EXCEPT !.op = "AuthToken",
                                  !.result = "pending", !.calls = calls,
                                  !.t1 = t1, !.t2 = t2]
             ELSE /\ last' = [Completed("AuthToken", d.out) EXCEPT
                                  !.calls = calls, !.t1 = t1, !.t2 = t2]
                  /\ UNCHANGED <<pc, retry, retry0, caller, statuses>>
    /\ UNCHANGED <<auth_data, intIdentity, uri, Body>>

AccessorPaths ==
    [AuthExpirationTime |-> ExpiresPath,
     AuthTenantId |-> <<"access", "token", "tenant", "id">>,
     AuthTenantName |-> <<"access", "token", "tenant", "name">>,
     AuthUserId |-> <<"access", "user", "id">>]

Accessor(name, data) ==
    IF HasPath(data, AccessorPaths[name])
    THEN Return(GetPath(data, AccessorPaths[name]))
    ELSE Raise(IF name = "AuthExpirationTime"
               THEN "AuthExpirationError" ELSE "AuthenticationError")

\* the user reads one of the plain properties
CallAccessor(name) ==
    /\ pc = "idle"
    /\ last' = Completed(name, Accessor(name, auth_data))
    /\ UNCHANGED <<auth_data, now, intIdentity, pc, retry, retry0, caller,
                   statuses, uri, Body>>

-----------------------------------------------------------------------------
(* The operations that read the service catalog or list credentials *)

\* the user reads the MossoId property
CallMossoId ==
    /\ pc = "idle"
    /\ last' = Completed("MossoId", MossoId(auth_data))
    /\ UNCHANGED <<auth_data, now, intIdentity, pc, retry, retry0, caller,
                   statuses, uri, Body>>

\* an operation that starts by reading AuthToken: op is
\* "GetCloudFilesDataCenters" or "AllCredentials"
CallThroughAuthToken(op, drift) ==
    /\ pc = "idle"
    /\ Elapsed(now) <= MaxElapsed
    /\ LET t1 == now
           t2 == AddSeconds(now, drift)
           d == AuthTokenDecision(auth_data, t1, t2)
           calls == IF d.branch \in {"expired", "near"} THEN 1 ELSE 0
           out == AfterAuthToken(op, d.out, auth_data)
       IN /\ d.branch \in {"raise", "expired"} => drift = 0
          /\ now' = IF d.branch = "near" THEN AddSeconds(t2, SleepSeconds)
                    ELSE IF d.branch = "cached" THEN t2
                    ELSE t1
          /\ IF calls = 1
             THEN /\ pc' = "GetToken"
                  /\ retry' = DefaultRetry
                  /\ retry0' = DefaultRetry
                  /\ caller' = op
                  /\ statuses' = <<>>
                  /\ uri' = uri
                  /\ last' = [NoCall EXCEPT !.op = op,
                                  !.result = "pending", !.calls = calls,
                                  !.t1 = t1, !.t2 = t2]
             ELSE /\ pc' = IF out.result = "request" THEN "AllCredentials"
                           ELSE "idle"
                  /\ uri' = IF out.result = "request"
                            THEN ReInit(CredentialsPath) ELSE uri
                  /\ last' = [Completed(op, out) EXCEPT
                                  !.calls = calls, !.t1 = t1, !.t2 = t2]
                  /\ UNCHANGED <<retry, retry0, caller, statuses>>
    /\ UNCHANGED <<auth_data, intIdentity, Body>>

\* the user calls GetCloudFilesDataCenters()
CallGetCloudFilesDataCenters(drift) ==
    CallThroughAuthToken("GetCloudFilesDataCenters", drift)

\* the user reads the AllCredentials property
CallAllCredentials(drift) == CallThroughAuthToken("AllCredentials", drift)

\* requests.get answers AllCredentials with status; every branch returns
\* or raises, so `self.uri = old_uri` below them is never run
Get(status) ==
    /\ pc = "AllCredentials"
    /\ pc' = "idle"
    /\ last' = [Completed("AllCredentials",
                          IF status \in {200, 203} THEN Return("credentials")
                          ELSE Raise("AuthenticationError")) EXCEPT
                    !.status = status, !.path = uri]
    /\ UNCHANGED <<auth_data, now, intIdentity, retry, retry0, caller,
                   statuses, uri, Body>>

\* a second passes
Tick ==
    /\ pc = "idle"
    /\ Elapsed(now) < MaxElapsed
    /\ now' = AddSecond(now)
    /\ UNCHANGED <<auth_data, intIdentity, pc, retry, retry0, caller,
                   statuses, uri, Body, last>>

Next ==
    \/ \E r \in 0..MaxRetry : CallGetToken(r)
    \/ \E status \in Statuses :
           \E body \in (IF status = HttpOk THEN Bodies ELSE {EmptyDict}) :
               Post(status, body)
    \/ \E fuzz \in 0..MaxFuzz : CallIsExpired(fuzz)
    \/ \E drift \in 0..MaxDrift : CallAuthToken(drift)
    \/ \E name \in DOMAIN AccessorPaths : CallAccessor(name)
    \/ Tick

Spec == Init /\ [][Next]_vars

-----------------------------------------------------------------------------
(* The comparator on its own: any stored expiry against any clock reading *)

CmpDates == { <<2023, 12, 28>>, <<2024, 1, 1>>, <<2024, 1, 28>>, <<2024, 12, 1>> }
CmpHours == {0, 23}
CmpMinutes == {0, 59}
CmpSeconds == {0, 3, 5, 58, 59}

CmpStamps ==
    { <<d[1], d[2], d[3], h, m, sec>> :
          d \in CmpDates, h \in CmpHours, m \in CmpMinutes, sec \in CmpSeconds }

InitCmp ==
    /\ auth_data \in { TokenBody("tokA", TimeString(st, tl)) :
                           st \in CmpStamps, tl \in {FracZ, NoTail} }
    /\ now \in CmpStamps
    /\ intIdentity = FALSE
    /\ pc = "idle"
    /\ retry = 0
    /\ retry0 = 0
    /\ caller = "GetToken"
    /\ statuses = <<>>
    /\ uri = TokensPath
    /\ Body = JsonDumps(Encode("alice", "s3cret", "user", "apikey").value)
    /\ last = NoCall

NextCmp == \E fuzz \in 0..MaxFuzz : CallIsExpired(fuzz)

SpecCmp == InitCmp /\ [][NextCmp]_vars

-----------------------------------------------------------------------------
(* The catalog accessors on their own: any catalog the service may send *)

MaxServices == 2   \* most services in a catalog

Endpoint(region, tenantId) ==
    [region |-> region, tenantId |-> tenantId,
     publicURL |-> "https://public", internalURL |-> "https://snet"]

EndpointLists ==
    { <<>>,
      <<Endpoint("DFW", "A")>>,
      <<Endpoint("ORD", "B")>>,
      <<Endpoint("DFW", ""), Endpoint("ORD", "B")>>,
      <<Endpoint("DFW", "A"), Endpoint("ORD", "B"), Endpoint("DFW", "A")>>,
      <<[region |-> "DFW"]>>,
      <<[tenantId |-> "A"]>> }

Services ==
    { [name |-> "cloudFiles", endpoints |-> eps] : eps \in EndpointLists }
        \cup { [name |-> "cloudBackup",
                endpoints |-> <<Endpoint("SYD", "Z")>>],
               [name |-> "cloudFiles"] }

Catalogs == UNION { [1..n -> Services] : n \in 0..MaxServices }

CatalogBody(expires, catalog) ==
    [access |-> [token |-> [id |-> "tokA",
                            expires |-> expires,
                            tenant |-> [id |-> "T1", name |-> "acme"]],
                 user |-> [id |-> "U1"],
                 serviceCatalog |-> catalog]]

CatalogBodies ==
    { CatalogBody(TimeString(st, FracZ), c) :
          st \in { <<2023, 12, 31, 23, 59, 59>>, <<2024, 3, 1, 0, 0, 0>> },
          c \in Catalogs }
        \cup { TokenBody("tokA", TimeString(<<2024, 3, 1, 0, 0, 0>>, FracZ)) }

\* what the service sends when the session authenticates again
RefreshBodies ==
    { CatalogBody(TimeString(<<2024, 3, 1, 0, 0, 0>>, FracZ), c) :
          c \in { << [name |-> "cloudBackup",
                      endpoints |-> <<Endpoint("SYD", "Z")>>],
                     [name |-> "cloudFiles",
                      endpoints |-> <<Endpoint("ORD", "B"), Endpoint("DFW", "A")>>] >>,
                  << [name |-> "cloudFiles"] >> } }
        \cup { EmptyDict }

\* a session that has authenticated and holds one of the catalogs
InitCat ==
    /\ auth_data \in CatalogBodies
    /\ now = <<2024, 1, 1, 0, 0, 3>>
    /\ intIdentity = FALSE
    /\ pc = "idle"
    /\ retry = 0
    /\ retry0 = 0
    /\ caller = "GetToken"
    /\ statuses = <<>>
    /\ uri = TokensPath
    /\ Body = JsonDumps(Encode("alice", "s3cret", "user", "apikey").value)
    /\ last = NoCall

NextCat ==
    \/ \E status \in {200, 401} :
           \E body \in (IF status = HttpOk THEN RefreshBodies ELSE {EmptyDict}) :
               Post(status, body)
    \/ CallMossoId
    \/ CallGetCloudFilesDataCenters(0)

SpecCat == InitCat /\ [][NextCat]_vars

-----------------------------------------------------------------------------
(* Listing credentials between authentications *)

UriBodies ==
    { TokenBody("tokA", TimeString(<<2023, 12, 31, 23, 59, 59>>, FracZ)),
      TokenBody("tokA", TimeString(<<2024, 3, 1, 0, 0, 0>>, FracZ)),
      [access |-> [token |-> [id |-> "tokA", expires |->
                       TimeString(<<2024, 3, 1, 0, 0, 0>>, FracZ)]]] }

NextUri ==
    \/ CallGetToken(0)
    \/ \E status \in {200, 404, 500} :
           \E body \in (IF status = HttpOk THEN UriBodies ELSE {EmptyDict}) :
               Post(status, body)
    \/ CallAuthToken(0)
    \/ CallAllCredentials(0)
    \/ \E status \in {200, 203, 404, 500} : Get(status)

SpecUri == Init /\ [][NextUri]_vars

-----------------------------------------------------------------------------
(* GetToken with any retry argument *)

MaxNegative == 2   \* the retry arguments tried reach down to -MaxNegative

NextRetry ==
    \/ \E r \in (0 - MaxNegative)..MaxRetry : CallGetToken(r)
    \/ \E status \in Statuses :
           \E body \in (IF status = HttpOk THEN UriBodies ELSE {EmptyDict}) :
               Post(status, body)

SpecRetry == Init /\ [][NextRetry]_vars

-----------------------------------------------------------------------------
(* Vocabulary of the properties *)

\* a is before b, field by field from the year down, without normalising
LexLess(a, b) ==
    \E i \in 1..6 : a[i] < b[i] /\ \A j \in 1..(i - 1) : a[j] = b[j]

\* (year, month, day, hour, minute, second + tolerance), no carry
Bumped(t, tolerance) == [t EXCEPT ![6] = t[6] + tolerance]

OtherStatus(st) == st > 0 /\ st # HttpOk /\ st # HttpNotFound /\ st < HttpErrorFloor
ErrorStatus(st) == st >= HttpErrorFloor /\ st # HttpNotFound

\* the stored expiry is one IsExpired can read as a time
StoredExpiryReadable ==
    /\ HasPath(auth_data, ExpiresPath)
    /\ ParseExpiration(auth_data).result = "return"

StoredExpiry == ParseExpiration(auth_data).value

\* the state right after AuthToken has decided whether to call GetToken
AtAuthTokenDecision ==
    /\ last.op = "AuthToken"
    /\ last.status = 0

-----------------------------------------------------------------------------
(* Properties of GetToken *)

\* C1 (as stated): the stored response changes only in a GetToken frame that
\* received HTTP 200; every other outcome leaves it as it was.
C1_OnlyOn200 ==
    [][auth_data' # auth_data => (pc = "GetToken" /\ last'.status = HttpOk)]_vars

\* C1 (amended): the stored response changes only in a GetToken frame, and
\* only in two ways: a 200 replaces it by the whole parsed body, a status
\* that is neither 200, nor 404, nor >= 400 replaces it by the empty
\* response.  404, >= 400 and raised errors leave it as it was.
C1_ChangedOnlyBy200OrOther ==
    [][auth_data' # auth_data =>
          /\ pc = "GetToken"
          /\ \/ last'.status = HttpOk /\ auth_data' = last'.body
             \/ OtherStatus(last'.status) /\ auth_data' = EmptyDict]_vars

\* a stored response has just been dropped by an unrecognised status
C1_Witness ==
    /\ last.changed
    /\ OtherStatus(last.status)
    /\ auth_data = EmptyDict

\* C2: after a 200 the stored response is the parsed body, whole, and a
\* value returned by that call is the token id of the response now stored.
C2_StoreAndReturnNew ==
    last.status = HttpOk =>
        /\ auth_data = last.body
        /\ last.result = "return" =>
               /\ HasPath(auth_data, TokenIdPath)
               /\ last.value = GetPath(auth_data, TokenIdPath)

\* a 200 has replaced a stored response and its token id came back
C2_Witness ==
    /\ last.status = HttpOk
    /\ last.changed
    /\ last.result = "return"
    /\ last.value = "tokB"
    /\ auth_data = last.body

AllNotFound ==
    /\ statuses # <<>>
    /\ \A i \in 1..Len(statuses) : statuses[i] = HttpNotFound

\* C3: a GetToken(maxRetries) call that saw only 404 answers has made
\* maxRetries retries, one send per attempt, and has failed with
\* AuthenticationError.
C3_RetriesOn404 ==
    (pc = "idle" /\ last.status = HttpNotFound /\ AllNotFound) =>
        /\ Len(statuses) = retry0 + 1
        /\ last.result = "raise"
        /\ last.exc = "AuthenticationError"

\* C4: a status >= 400 other than 404 ends the call without another send,
\* and ends it by raising AuthenticationError.
C4_ErrorStatusRaises ==
    ErrorStatus(last.status) =>
        /\ pc = "idle"
        /\ last.result = "raise"
        /\ last.exc = "AuthenticationError"

\* C5: a status that is neither 200, nor 404, nor >= 400 makes the call
\* return the empty token without raising and leaves the stored response
\* empty; an IsExpired call made in that state returns True.
C5_OtherStatusClears ==
    /\ [](OtherStatus(last.status) =>
            /\ pc = "idle"
            /\ last.result = "return"
            /\ last.value = ""
            /\ auth_data = EmptyDict)
    /\ [][(OtherStatus(last.status) /\ last'.op = "IsExpired") =>
            (last'.result = "return" /\ last'.value = "True")]_vars

\* IsExpired has been called after an unrecognised status ended GetToken
C5_Witness ==
    /\ last.op = "IsExpired"
    /\ last.value = "True"
    /\ statuses # <<>>
    /\ OtherStatus(statuses[Len(statuses)])
    /\ auth_data = EmptyDict

-----------------------------------------------------------------------------
(* Properties of IsExpired and AuthToken *)

\* C6 (as stated): AuthToken calls GetToken once when the stored token is
\* absent, expired, or has at most 2 seconds of real lifetime left, and
\* not at all, returning the cached token id, when it has more than 2.
C6_RealLifetimeWindow ==
    (AtAuthTokenDecision /\ (StoredExpiryReadable \/ auth_data = EmptyDict)) =>
        IF auth_data = EmptyDict
        THEN last.calls = 1
        ELSE IF Seconds(StoredExpiry) - Seconds(last.t1) <= NearExpiryFuzz
        THEN last.calls = 1
        ELSE /\ last.calls = 0
             /\ HasPath(auth_data, TokenIdPath) =>
                    last.value = GetPath(auth_data, TokenIdPath)

\* C6 (amended): AuthToken calls GetToken once when no expiry is stored or
\* the expiry fields are before the fields of the first clock reading;
\* once when they are not, but are before (year, month, day, hour, minute,
\* second + 2) of the second clock reading, the sum not carried into the
\* minute; and otherwise not at all, returning the cached token id if one
\* is stored.  Within the minute the window is a remaining lifetime below
\* 2 seconds; an expiry in a later minute, hour or day is never in it.
C6_FieldwiseWindow ==
    (AtAuthTokenDecision /\
        (StoredExpiryReadable \/ ~HasPath(auth_data, ExpiresPath))) =>
        IF ~HasPath(auth_data, ExpiresPath)
        THEN last.calls = 1
        ELSE IF \/ LexLess(StoredExpiry, last.t1)
                \/ LexLess(StoredExpiry, Bumped(last.t2, NearExpiryFuzz))
        THEN last.calls = 1 /\ pc = "GetToken" /\ statuses = <<>>
        ELSE /\ last.calls = 0
             /\ pc = "idle"
             /\ HasPath(auth_data, TokenIdPath) =>
                    /\ last.result = "return"
                    /\ last.value = GetPath(auth_data, TokenIdPath)

\* AuthToken is about to re-authenticate a token that had not expired
C6_Witness ==
    /\ AtAuthTokenDecision
    /\ StoredExpiryReadable
    /\ ~LexLess(StoredExpiry, last.t1)
    /\ last.calls = 1
    /\ pc = "GetToken"

\* C7: IsExpired(tolerance) returns False iff the expiry fields are after,
\* or equal to, (year, month, day, hour, minute, second + tolerance) of
\* now, compared field by field with the sum not carried; else True.
C7_FieldwiseOrder ==
    (last.op = "IsExpired" /\ StoredExpiryReadable) =>
        /\ last.result = "return"
        /\ last.value \in {"True", "False"}
        /\ last.value = "False" <=>
               \/ LexLess(Bumped(last.t1, last.fuzz), StoredExpiry)
               \/ Bumped(last.t1, last.fuzz) = StoredExpiry

\* IsExpired has compared against a seconds field pushed past 59
C7_Witness ==
    /\ last.op = "IsExpired"
    /\ StoredExpiryReadable
    /\ last.t1[6] + last.fuzz > 59
    /\ \A i \in 1..5 : StoredExpiry[i] = last.t1[i]
    /\ last.value = "True"

ExpiryTwoSecondsAhead ==
    /\ last.op = "IsExpired"
    /\ StoredExpiryReadable
    /\ \A i \in 1..5 : StoredExpiry[i] = last.t1[i]
    /\ StoredExpiry[6] = last.t1[6] + 2

\* C8 (as stated): with the expiry 2 seconds ahead of now in the same
\* minute, IsExpired(0) is False and IsExpired(2) is True.
C8_EqualIsExpired ==
    ExpiryTwoSecondsAhead =>
        /\ last.fuzz = 0 => last.value = "False"
        /\ last.fuzz = 2 => last.value = "True"

\* C8 (amended): with the expiry 2 seconds ahead of now in the same
\* minute, IsExpired(0) is False and IsExpired(2) is False as well: when
\* every field of the expiry equals that of now + tolerance the token
\* counts as not expired.
C8_EqualIsNotExpired ==
    ExpiryTwoSecondsAhead =>
        /\ last.fuzz = 0 => last.value = "False"
        /\ last.fuzz = 2 => last.value = "False"

\* IsExpired(2) has been asked about an expiry exactly 2 seconds ahead
C8_Witness ==
    /\ ExpiryTwoSecondsAhead
    /\ last.fuzz = 2
    /\ last.value = "False"

\* C9: with no response stored, IsExpired returns True whatever the
\* tolerance, and raises nothing.
C9_EmptyIsExpired ==
    (last.op = "IsExpired" /\ auth_data = EmptyDict) =>
        /\ last.result = "return"
        /\ last.value = "True"

\* IsExpired has been called with a tolerance before any response was stored
C9_Witness ==
    /\ last.op = "IsExpired"
    /\ auth_data = EmptyDict
    /\ statuses = <<>>
    /\ last.fuzz > 0
    /\ last.value = "True"

\* C10: a stored expiry written as ...SS.ffffffZ or ...SSZ makes IsExpired
\* return a boolean; one written any other way makes it raise the
\* unknown-time-format AuthenticationError and nothing else, in a direct
\* call and in a call made by AuthToken.
C10_TimeFormats ==
    HasPath(auth_data, ExpiresPath) =>
        LET str == GetPath(auth_data, ExpiresPath)
            documented == ValidStamp(str.stamp) /\ str.tail \in {FracZ, ZTail}
        IN /\ last.op = "IsExpired" =>
                  IF documented
                  THEN last.result = "return" /\ last.value \in {"True", "False"}
                  ELSE last.result = "raise" /\ last.exc = "AuthenticationError"
           /\ (AtAuthTokenDecision /\ ~documented) =>
                  (last.result = "raise" /\ last.exc = "AuthenticationError")

-----------------------------------------------------------------------------
(* Construction on its own: any credentials handed to __init__ *)

UserIds == {"alice", "bob", "acme"}
Secrets == {"s3cret", "k3y"}
UserTypes == {"user", "tenantid", "tenantname", "email"}
Methods == {"apikey", "password", "token", "validate", "oauth"}

\* Authentication(userid, credentials, usertype, method)
Construct(userid, credentials, usertype, method) ==
    LET o == Encode(userid, credentials, usertype, method) IN
    /\ IF o.result = "return"
       THEN /\ Body' = JsonDumps(o.value)
            /\ auth_data' = EmptyDict
            /\ uri' = TokensPath
            /\ pc' = "idle"
       ELSE UNCHANGED <<Body, auth_data, uri, pc>>
    /\ last' = [NoCall EXCEPT !.op = "__init__", !.result = o.result,
                              !.exc = o.exc,
                              !.args = <<userid, credentials, usertype, method>>]
    /\ UNCHANGED <<now, intIdentity, retry, retry0, caller, statuses>>

InitEnc ==
    /\ auth_data = EmptyDict
    /\ now \in ClockStarts
    /\ intIdentity = FALSE
    /\ pc = "new"
    /\ retry = 0
    /\ retry0 = 0
    /\ caller = "GetToken"
    /\ statuses = <<>>
    /\ uri = "-"
    /\ Body = <<>>
    /\ last = NoCall

NextEnc ==
    \E userid \in UserIds, credentials \in Secrets,
       usertype \in UserTypes, method \in Methods :
        Construct(userid, credentials, usertype, method)

SpecEnc == InitEnc /\ [][NextEnc]_vars

-----------------------------------------------------------------------------
(* Properties of construction *)

\* the documented (method, userType) pairs
ValidPairs ==
    { <<"apikey", "user">>, <<"apikey", "tenantid">>,
      <<"password", "user">>, <<"password", "tenantid">>,
      <<"token", "tenantid">>, <<"token", "tenantname">>,
      <<"validate", "user">>, <<"validate", "tenantid">>,
      <<"validate", "tenantname">> }

ArgsPair == <<last.args[4], last.args[3]>>

\* the documented body of a valid (userid, secret, usertype, method), as text
DocumentedBody(a) ==
    LET opened == <<"{", "auth", ":", "{">>
        closed == <<"}", "}">>
        token == <<"token", ":", "{", "id", ":", a[2], "}">>
    IN IF a[4] \in {"apikey", "password"} /\ a[3] = "user"
       THEN opened
            \o << (IF a[4] = "apikey" THEN rax_api_keyspace
                                      ELSE "passwordCredentials"), ":", "{",
                  "username", ":", a[1],
                  (IF a[4] = "apikey" THEN "apiKey" ELSE "password"), ":", a[2],
                  "}" >>
            \o closed
       ELSE IF a[4] = "validate"
       THEN opened \o token \o closed
       ELSE opened
            \o << (IF a[3] = "tenantid" THEN "tenantId" ELSE "tenantName"),
                  ":", a[1] >>
            \o token \o closed

ValidTuples ==
    { a \in UserIds \X Secrets \X UserTypes \X Methods : <<a[4], a[3]>> \in ValidPairs }

\* C11: construction with a (method, userType) pair outside the documented
\* ones raises AuthCredentialsErrors and produces no request body.
C11_InvalidPairRaises ==
    [][(last'.op = "__init__" /\ <<last'.args[4], last'.args[3]>> \notin ValidPairs) =>
          /\ last'.result = "raise"
          /\ last'.exc = "AuthCredentialsErrors"
          /\ Body' = Body]_vars

C13_Injective ==
    (last.op = "__init__" /\ ArgsPair \in ValidPairs) =>
        \A a \in ValidTuples : DocumentedBody(a) = Body => a = last.args

\* two valid tuples that the documented shapes do not tell apart
SameShape(a, b) ==
    \/ a = b
    \/ /\ a[4] = "validate" /\ b[4] = "validate"
       /\ a[2] = b[2]
    \/ /\ a[3] = "tenantid" /\ b[3] = "tenantid"
       /\ a[4] # "validate" /\ b[4] # "validate"
       /\ a[1] = b[1] /\ a[2] = b[2]

\* C13 (amended): the body of a valid tuple is the documented body of
\* another valid tuple exactly when both are validate tuples with the same
\* secret, or both are tenantid tuples of methods apikey, password or
\* token with the same userId and secret.  Apart from these the body
\* gives back method, userType, userId and secret.
C13_InjectiveUpToShape ==
    (last.op = "__init__" /\ ArgsPair \in ValidPairs) =>
        \A a \in ValidTuples : DocumentedBody(a) = Body <=> SameShape(a, last.args)

\* a password + tenantid session has been constructed, whose body a
\* token + tenantid session shares
C13_Witness ==
    /\ last.op = "__init__"
    /\ ArgsPair = <<"password", "tenantid">>
    /\ last.result = "return"
    /\ DocumentedBody(<<last.args[1], last.args[2], "tenantid", "token">>) = Body

-----------------------------------------------------------------------------
(* Properties of AuthToken's failures, the catalog accessors, the request *)
(* path and the retry counter                                             *)

\* C14: an AuthToken read made with nothing stored, whose GetToken ended
\* on a status >= 400 other than 404, raises; and an AuthToken read whose
\* GetToken ended on anything but 200 returns normally only for an
\* unrecognised status, and then returns the empty token.
C14_ErrorSurfaces ==
    (last.op = "AuthToken" /\ last.status # 0 /\ pc = "idle") =>
        /\ (ErrorStatus(last.status) /\ auth_data = EmptyDict) =>
               last.result = "raise"
        /\ (last.status # HttpOk /\ last.result = "return") =>
               (OtherStatus(last.status) /\ last.value = "")

\* the stored catalog has every key the accessors read
WellFormedCatalog ==
    /\ HasPath(auth_data, CatalogPath)
    /\ \A i \in 1..Len(GetPath(auth_data, CatalogPath)) :
           LET service == GetPath(auth_data, CatalogPath)[i] IN
           /\ {"name", "endpoints"} \subseteq DOMAIN service
           /\ \A j \in 1..Len(service.endpoints) :
                  {"region", "tenantId"} \subseteq DOMAIN service.endpoints[j]

\* positions <<service, endpoint>> of the cloudFiles endpoints
CloudFilesPositions ==
    LET catalog == GetPath(auth_data, CatalogPath) IN
    UNION { { <<i, j>> : j \in 1..Len(catalog[i].endpoints) } :
                i \in { n \in 1..Len(catalog) : catalog[n].name = "cloudFiles" } }

PositionBefore(p, q) == p[1] < q[1] \/ (p[1] = q[1] /\ p[2] < q[2])

\* field of every cloudFiles endpoint, in catalog order
CloudFilesField(field) ==
    LET catalog == GetPath(auth_data, CatalogPath)
        rank(p) == Cardinality({ q \in CloudFilesPositions : PositionBefore(q, p) }) + 1
    IN [k \in 1..Cardinality(CloudFilesPositions) |->
            LET p == CHOOSE q \in CloudFilesPositions : rank(q) = k
            IN catalog[p[1]].endpoints[p[2]][field]]

\* the first non-empty entry of a sequence of strings, else None
FirstNonEmpty(seq) ==
    IF \E k \in 1..Len(seq) : seq[k] # ""
    THEN seq[CHOOSE k \in 1..Len(seq) :
                 seq[k] # "" /\ \A j \in 1..(k - 1) : seq[j] = ""]
    ELSE "None"

\* C15: MossoId returns the first non-empty tenant id, in catalog order,
\* among the endpoints of the cloudFiles entries, however many cloudFiles
\* entries the catalog holds.
C15_FirstMatchWins ==
    (last.op = "MossoId" /\ WellFormedCatalog) =>
        /\ last.result = "return"
        /\ last.value = FirstNonEmpty(CloudFilesField("tenantId"))

\* C16: GetCloudFilesDataCenters, with a token that needs no renewal,
\* returns; and whenever it returns, the list is the region of every
\* endpoint of every cloudFiles entry, in catalog order, duplicates kept,
\* and nothing from other services.
C16_RegionsInOrder ==
    (last.op = "GetCloudFilesDataCenters" /\ WellFormedCatalog) =>
        /\ (last.calls = 0 /\ HasPath(auth_data, TokenIdPath)) =>
               last.result = "return"
        /\ last.result = "return" => last.value = CloudFilesField("region")

\* two cloudFiles entries, DFW then ORD, have been listed
C16_Witness ==
    /\ last.op = "GetCloudFilesDataCenters"
    /\ last.calls = 0
    /\ WellFormedCatalog
    /\ Len(GetPath(auth_data, CatalogPath)) = 2
    /\ \A i \in 1..2 : GetPath(auth_data, CatalogPath)[i].name = "cloudFiles"
    /\ last.result = "return"
    /\ last.value = <<"DFW", "ORD">>

\* C17: every authentication request is posted to /v2.0/tokens, and
\* between operations the session's path is /v2.0/tokens, also after
\* AllCredentials has returned or raised.
C17_PostsToTokens ==
    /\ pc = "idle" => uri = TokensPath
    /\ last.op \in {"GetToken", "AuthToken"} => last.path \in {"-", TokensPath}

Max(a, b) == IF a >= b THEN a ELSE b

\* C18: a GetToken(maxRetries) call has never made more than
\* max(maxRetries, 0) + 1 sends, every send but the last was answered 404,
\* and the retry counter of a waiting frame has gone down by one per send.
C18_BoundedSends ==
    /\ Len(statuses) <= Max(retry0, 0) + 1
    /\ \A i \in 1..(Len(statuses) - 1) : statuses[i] = HttpNotFound
    /\ pc = "GetToken" => retry = retry0 - Len(statuses)

\* C19: if IsExpired(t1) is True, IsExpired(t2) is True for every
\* t2 >= t1 >= 0 with the same stored expiry and clock; so IsExpired(2)
\* False implies IsExpired(0) False.
C19_MonotoneInFuzz ==
    (last.op = "IsExpired" /\ StoredExpiryReadable /\ last.value = "True") =>
        \A f \in last.fuzz..(MaxFuzz + NearExpiryFuzz) :
            IsExpired(auth_data, last.t1, f) = Return("True")

\* IsExpired(0) has said True of a token in the same minute as now
C19_Witness ==
    /\ last.op = "IsExpired"
    /\ StoredExpiryReadable
    /\ last.fuzz = 0
    /\ last.value = "True"
    /\ \A i \in 1..5 : StoredExpiry[i] = last.t1[i]

\* C20: IsExpired(0) is True iff now is strictly later than the expiry on
\* the time line, both taken to the second.
C20_ChronologicalAtZero ==
    (last.op = "IsExpired" /\ StoredExpiryReadable /\ last.fuzz = 0) =>
        (last.value = "True" <=> Seconds(last.t1) > Seconds(StoredExpiry))

\* IsExpired(0) has said False of an expiry in a later month whose day,
\* hour, minute and second are all below those of now
C20_Witness ==
    /\ last.op = "IsExpired"
    /\ StoredExpiryReadable
    /\ last.fuzz = 0
    /\ StoredExpiry[1] = last.t1[1]
    /\ StoredExpiry[2] > last.t1[2]
    /\ \A i \in 3..6 : StoredExpiry[i] < last.t1[i]
    /\ last.value = "False"

====
